---------------------------- MODULE Spec2Model ----------------------------
(***************************************************************************)
(* Pan/zoom viewport state of the ImageViewer component (src/src/App.tsx). *)
(*                                                                         *)
(* Each ImageViewer instance owns four useState cells: scale, pan,         *)
(* isPanning and lastPanPoint.  Event handlers enqueue updates to those    *)
(* cells.  handleWheel, handleMouseDown, handleMouseUp and resetView are   *)
(* created once (useCallback with no dependencies) and their updates are   *)
(* either constants or functions of the newest value of the cell, so they  *)
(* always act on the newest state.  handleMouseMove is different: it is    *)
(* re-created on render with dependencies [isPanning, lastPanPoint] and    *)
(* reads isPanning and lastPanPoint as plain values of the render that     *)
(* created it.  The variable `captured` holds those two values for the     *)
(* handleMouseMove callback that is currently attached to the element.     *)
(*                                                                         *)
(* When the component re-renders relative to the events is decided by the  *)
(* renderer, not by this file.  mousedown, mouseup and click are committed *)
(* before the next event is dispatched; wheel, mousemove and mouseleave    *)
(* only schedule a render, which the model takes as the separate step      *)
(* Render that may come before or after further events.                    *)
(***************************************************************************)
EXTENDS Integers, FiniteSets, Sequences, TLC

\* ------------------------------------------------------------------ bounds
\* pointer events are taken at the positions with clientX + clientY <= MaxCoord
MaxCoord == 1
\* onMouseMove is taken while |pan.x| + |pan.y| stays within MaxPan
MaxPan == 1
\* SpecBoth delivers at most MaxEvents events to the two viewers together
MaxEvents == 3

\* ------------------------------------------------------- program constants
DefaultScale == 200
MinScale == 50
MaxScale == 800
ZoomStep == 20

\* ------------------------------------------------------------------ inputs
Viewers == {"vector", "raster"}
\* the instance the pointer is over in Spec
Target == "vector"
\* e.button: 0 is the primary button, 2 the secondary
Buttons == {0, 2}
\* e.deltaY of a wheel event: up, none (horizontal scroll), down
DeltaYs == {-100, 0, 100}
Coords == 0..MaxCoord
Points == {p \in [x : Coords, y : Coords] : p.x + p.y <= MaxCoord}
Abs(n) == IF n < 0 THEN -n ELSE n
PanInRange(p) == Abs(p.x) + Abs(p.y) <= MaxPan
Origin == [x |-> 0, y |-> 0]

Min(a, b) == IF a < b THEN a ELSE b
Max(a, b) == IF a > b THEN a ELSE b

VARIABLES
  scale,         \* [Viewers -> Int]      useState(200)
  pan,           \* [Viewers -> {x, y}]   useState({x: 0, y: 0})
  isPanning,     \* [Viewers -> BOOLEAN]  useState(false)
  lastPanPoint,  \* [Viewers -> {x, y}]   useState({x: 0, y: 0})
  captured,      \* [Viewers -> [isPanning, lastPanPoint]] as bound in the
                 \* attached handleMouseMove callback
  lastEvent,     \* history: the last event handled, per viewer ("hscroll" is
                 \* a wheel event with deltaY = 0)
  drag,          \* history: a primary pointer-down happened and no pointer-up,
                 \* pointer-leave or Reset since, per viewer
  released,      \* history: a pointer-up/leave happened and no primary
                 \* pointer-down since, per viewer
  handled        \* history: the number of events delivered in SpecBoth

state == <<scale, pan, isPanning, lastPanPoint>>
history == <<lastEvent, drag, released>>
vars == <<scale, pan, isPanning, lastPanPoint, captured, lastEvent, drag, released,
         handled>>

\* ------------------------------------------------------------------- mount
Init ==
  /\ scale = [v \in Viewers |-> DefaultScale]
  /\ pan = [v \in Viewers |-> Origin]
  /\ isPanning = [v \in Viewers |-> FALSE]
  /\ lastPanPoint = [v \in Viewers |-> Origin]
  /\ captured = [v \in Viewers |-> [isPanning |-> FALSE, lastPanPoint |-> Origin]]
  /\ lastEvent = [v \in Viewers |-> "mount"]
  /\ drag = [v \in Viewers |-> FALSE]
  /\ released = [v \in Viewers |-> FALSE]
  /\ handled = 0

\* ---------------------------------------------------------------- handlers
\* mutant of wheelDelta: the direction test inverted
wheelDeltaInverted(deltaY) == IF deltaY > 0 THEN ZoomStep ELSE -ZoomStep

\* mutant of wheelDelta: a wheel event without vertical movement ignored
wheelDeltaZeroIgnored(deltaY) ==
  IF deltaY > 0 THEN -ZoomStep ELSE IF deltaY < 0 THEN ZoomStep ELSE 0

\* mutant of wheelDelta: zoom-in by half the step of zoom-out
wheelDeltaUneven(deltaY) == IF deltaY > 0 THEN -ZoomStep ELSE ZoomStep \div 2

\* const delta = e.deltaY > 0 ? -20 : 20
wheelDelta(deltaY) == IF deltaY > 0 THEN -ZoomStep ELSE ZoomStep

\* mutant of zoomed: the upper clamp forgotten
zoomedNoCeiling(prev, delta) == Max(MinScale, prev + delta)

\* mutant of zoomed: the lower clamp forgotten
zoomedNoFloor(prev, delta) == Min(MaxScale, prev + delta)

\* prev => Math.max(50, Math.min(800, prev + delta))
zoomed(prev, delta) == Max(MinScale, Min(MaxScale, prev + delta))

\* mutant of handleWheel: one scale cell shared by the instances
handleWheelShared(v, deltaY) ==
  /\ scale' = [w \in Viewers |-> zoomed(scale[w], wheelDelta(deltaY))]
  /\ UNCHANGED <<pan, isPanning, lastPanPoint>>

handleWheel(v, deltaY) ==
  /\ scale' = [scale EXCEPT ![v] = zoomed(@, wheelDelta(deltaY))]
  /\ UNCHANGED <<pan, isPanning, lastPanPoint>>

\* mutant of handleMouseDown: the button test forgotten
handleMouseDownAnyButton(v, button, clientX, clientY) ==
  /\ isPanning' = [isPanning EXCEPT ![v] = TRUE]
  /\ lastPanPoint' = [lastPanPoint EXCEPT ![v] = [x |-> clientX, y |-> clientY]]
  /\ UNCHANGED <<scale, pan>>

handleMouseDown(v, button, clientX, clientY) ==
  IF button = 0
  THEN /\ isPanning' = [isPanning EXCEPT ![v] = TRUE]
       /\ lastPanPoint' = [lastPanPoint EXCEPT ![v] = [x |-> clientX, y |-> clientY]]
       /\ UNCHANGED <<scale, pan>>
  ELSE UNCHANGED state

\* prev => ({x: prev.x + deltaX, y: prev.y + deltaY}), with deltaX and deltaY
\* computed from the lastPanPoint of the render that created the callback
panned(prev, from, clientX, clientY) ==
  [x |-> prev.x + (clientX - from.x), y |-> prev.y + (clientY - from.y)]

\* mutant of handleMouseMove: the isPanning test forgotten
handleMouseMoveUnguarded(v, clientX, clientY) ==
  /\ pan' = [pan EXCEPT ![v] = panned(@, captured[v].lastPanPoint, clientX, clientY)]
  /\ lastPanPoint' = [lastPanPoint EXCEPT ![v] = [x |-> clientX, y |-> clientY]]
  /\ UNCHANGED <<scale, isPanning>>

\* mutant of handleMouseMove: the pointer delta divided by the zoom factor
handleMouseMoveZoomScaled(v, clientX, clientY) ==
  IF captured[v].isPanning
  THEN /\ pan' = [pan EXCEPT ![v] =
                   [x |-> @.x + ((clientX - captured[v].lastPanPoint.x) * 100) \div scale[v],
                    y |-> @.y + ((clientY - captured[v].lastPanPoint.y) * 100) \div scale[v]]]
       /\ lastPanPoint' = [lastPanPoint EXCEPT ![v] = [x |-> clientX, y |-> clientY]]
       /\ UNCHANGED <<scale, isPanning>>
  ELSE UNCHANGED state

handleMouseMove(v, clientX, clientY) ==
  IF captured[v].isPanning
  THEN /\ pan' = [pan EXCEPT ![v] = panned(@, captured[v].lastPanPoint, clientX, clientY)]
       /\ lastPanPoint' = [lastPanPoint EXCEPT ![v] = [x |-> clientX, y |-> clientY]]
       /\ UNCHANGED <<scale, isPanning>>
  ELSE UNCHANGED state

\* mutant of handleMouseUp: it also clears lastPanPoint
handleMouseUpClearsPoint(v) ==
  /\ isPanning' = [isPanning EXCEPT ![v] = FALSE]
  /\ lastPanPoint' = [lastPanPoint EXCEPT ![v] = [x |-> 0, y |-> 0]]
  /\ UNCHANGED <<scale, pan>>

handleMouseUp(v) ==
  /\ isPanning' = [isPanning EXCEPT ![v] = FALSE]
  /\ UNCHANGED <<scale, pan, lastPanPoint>>

\* mutant of resetView: setPan forgotten
resetViewKeepsPan(v) ==
  /\ scale' = [scale EXCEPT ![v] = 200]
  /\ UNCHANGED <<pan, isPanning, lastPanPoint>>

\* mutant of resetView: it also ends the drag
resetViewEndsDrag(v) ==
  /\ scale' = [scale EXCEPT ![v] = 200]
  /\ pan' = [pan EXCEPT ![v] = [x |-> 0, y |-> 0]]
  /\ isPanning' = [isPanning EXCEPT ![v] = FALSE]
  /\ UNCHANGED lastPanPoint

resetView(v) ==
  /\ scale' = [scale EXCEPT ![v] = 200]
  /\ pan' = [pan EXCEPT ![v] = [x |-> 0, y |-> 0]]
  /\ UNCHANGED <<isPanning, lastPanPoint>>

\* ------------------------------------------------------------------ render
\* The values a render of viewer v hands to useCallback for handleMouseMove.
rendered(v) == [isPanning |-> isPanning'[v], lastPanPoint |-> lastPanPoint'[v]]

\* The render is only scheduled: the attached callback stays as it is.
Scheduled(v) == UNCHANGED captured

\* The updates of this event are committed before the next event.  Updates of
\* earlier wheel/move/leave events that are still waiting are committed with
\* them or left waiting, depending on the renderer.
Committed(v, own) ==
  \E seen \in {rendered(v), own} : captured' = [captured EXCEPT ![v] = seen]

\* ------------------------------------------------------------------ events
\* onWheel={handleWheel}
wheelEvent(v, deltaY) ==
  /\ lastEvent' = [lastEvent EXCEPT ![v] = IF deltaY = 0 THEN "hscroll" ELSE "wheel"]
  /\ handleWheel(v, deltaY)
  /\ Scheduled(v)
  /\ UNCHANGED <<drag, released>>

onWheel(v) == \E deltaY \in DeltaYs : wheelEvent(v, deltaY)

\* onMouseDown={handleMouseDown}
mouseDownEvent(v, button, e) ==
  /\ lastEvent' = [lastEvent EXCEPT ![v] = IF button = 0 THEN "mousedown" ELSE "auxdown"]
  /\ handleMouseDown(v, button, e.x, e.y)
  /\ Committed(v, IF button = 0 THEN rendered(v) ELSE captured[v])
  /\ IF button = 0
     THEN /\ drag' = [drag EXCEPT ![v] = TRUE]
          /\ released' = [released EXCEPT ![v] = FALSE]
     ELSE UNCHANGED <<drag, released>>

onMouseDown(v) == \E button \in Buttons, e \in Points : mouseDownEvent(v, button, e)

\* onMouseMove={handleMouseMove}
mouseMoveEvent(v, e) ==
  /\ lastEvent' = [lastEvent EXCEPT ![v] = "mousemove"]
  /\ handleMouseMove(v, e.x, e.y)
  /\ PanInRange(pan'[v])
  /\ Scheduled(v)
  /\ UNCHANGED <<drag, released>>

onMouseMove(v) == \E e \in Points : mouseMoveEvent(v, e)

\* onMouseUp={handleMouseUp}
onMouseUp(v) ==
  /\ lastEvent' = [lastEvent EXCEPT ![v] = "mouseup"]
  /\ handleMouseUp(v)
  /\ Committed(v, [captured[v] EXCEPT !.isPanning = FALSE])
  /\ drag' = [drag EXCEPT ![v] = FALSE]
  /\ released' = [released EXCEPT ![v] = TRUE]

\* onMouseLeave={handleMouseUp}
onMouseLeave(v) ==
  /\ lastEvent' = [lastEvent EXCEPT ![v] = "mouseleave"]
  /\ handleMouseUp(v)
  /\ Scheduled(v)
  /\ drag' = [drag EXCEPT ![v] = FALSE]
  /\ released' = [released EXCEPT ![v] = TRUE]

\* onClick={resetView}
onClickReset(v) ==
  /\ lastEvent' = [lastEvent EXCEPT ![v] = "reset"]
  /\ resetView(v)
  /\ Committed(v, captured[v])
  /\ drag' = [drag EXCEPT ![v] = FALSE]
  /\ UNCHANGED released

\* A scheduled render runs: handleMouseMove is re-created from the newest
\* isPanning and lastPanPoint.
Render(v) ==
  /\ captured[v] # [isPanning |-> isPanning[v], lastPanPoint |-> lastPanPoint[v]]
  /\ captured' = [captured EXCEPT ![v] = [isPanning |-> isPanning[v],
                                          lastPanPoint |-> lastPanPoint[v]]]
  /\ UNCHANGED <<state, history>>

\* One viewer: every event goes to the instance Target.
Next ==
  \/ onWheel(Target) /\ UNCHANGED handled
  \/ onMouseDown(Target) /\ UNCHANGED handled
  \/ onMouseMove(Target) /\ UNCHANGED handled
  \/ onMouseUp(Target) /\ UNCHANGED handled
  \/ onMouseLeave(Target) /\ UNCHANGED handled
  \/ onClickReset(Target) /\ UNCHANGED handled
  \/ Render(Target) /\ UNCHANGED handled

Spec == Init /\ [][Next]_vars

\* Both viewers of ImageComparisonApp: the events go to either instance, in
\* every interleaving of at most MaxEvents events.
Counted == handled < MaxEvents /\ handled' = handled + 1

NextBoth ==
  \E v \in Viewers :
    \/ Counted /\ onWheel(v)
    \/ Counted /\ onMouseDown(v)
    \/ Counted /\ onMouseMove(v)
    \/ Counted /\ onMouseUp(v)
    \/ Counted /\ onMouseLeave(v)
    \/ Counted /\ onClickReset(v)
    \/ Render(v) /\ UNCHANGED handled

SpecBoth == Init /\ [][NextBoth]_vars

TypeOK ==
  /\ scale \in [Viewers -> Int]
  /\ \A v \in Viewers : PanInRange(pan[v])
  /\ isPanning \in [Viewers -> BOOLEAN]
  /\ lastPanPoint \in [Viewers -> Points]
  /\ captured \in [Viewers -> [isPanning : BOOLEAN, lastPanPoint : Points]]

\* The style of the transformed layer.  transform is the CSS function list
\* `translate(pan.x px, pan.y px) scale(scale / 100)`; the scale factor is
\* kept in hundredths so that the arithmetic stays in the integers.
\* mutant of transform: the two functions in the other order
transformScaleFirst(v) ==
  << [fn |-> "scale", x |-> scale[v], y |-> scale[v]],
     [fn |-> "translate", x |-> pan[v].x, y |-> pan[v].y] >>

transform(v) ==
  << [fn |-> "translate", x |-> pan[v].x, y |-> pan[v].y],
     [fn |-> "scale", x |-> scale[v], y |-> scale[v]] >>

transition(v) == IF isPanning[v] THEN "none" ELSE "transform 0.1s ease-out"

\* One transform function applied to a point given in 1/100 px.
applyFn(f, p) ==
  IF f.fn = "translate"
    THEN [x |-> p.x + 100 * f.x, y |-> p.y + 100 * f.y]
    ELSE [x |-> (f.x * p.x) \div 100, y |-> (f.y * p.y) \div 100]

\* A transform list maps a point by the product of its functions' matrices
\* taken left to right, so the rightmost function acts on the point first;
\* transformOrigin '0 0' adds no shift.
RECURSIVE applyList(_, _)
applyList(fs, p) ==
  IF fs = << >> THEN p ELSE applyFn(Head(fs), applyList(Tail(fs), p))

\* Points of the children, in px of the untransformed layer.
ContentPoints == {[x |-> 0, y |-> 0], [x |-> 1, y |-> 3], [x |-> 400, y |-> 300]}

\* Where the layer shows content point c, in 1/100 px of the container.
display100(v, c) == applyList(transform(v), [x |-> 100 * c.x, y |-> 100 * c.y])

\* ------------------------------------------------------------------ claims
\* The claims speak of one viewer's ViewportState: scale, offset (pan),
\* isDragging (isPanning) and lastPointerPosition (lastPanPoint).
T == Target

\* C1: in every state reachable from mount by wheel, pointer and Reset events,
\* scale lies in the closed interval [50, 800].
C1_ScaleInRange == scale[T] >= 50 /\ scale[T] <= 800

\* a wheel event has clamped the scale at the lower end (60 - 20 < 50)
C1_Witness == scale[T] = 50 /\ lastEvent[T] = "wheel"

\* C2: a wheel event with negative delta takes scale s to min(800, s + 20), one
\* with positive delta takes it to max(50, s - 20); from 200 these give 220
\* and 180.
C2_WheelStep ==
  [][\A deltaY \in DeltaYs :
       wheelEvent(T, deltaY) =>
         /\ deltaY < 0 => scale'[T] = Min(800, scale[T] + 20)
         /\ deltaY > 0 => scale'[T] = Max(50, scale[T] - 20)
         /\ (deltaY < 0 /\ scale[T] = 200) => scale'[T] = 220
         /\ (deltaY > 0 /\ scale[T] = 200) => scale'[T] = 180]_vars

\* a wheel event has taken the scale to 220
C2_Witness == scale[T] = 220 /\ lastEvent[T] = "wheel"

\* C3: in a drag gesture (primary pointer-down at p0, then pointer-moves to
\* p1..pn, with no pointer-up, pointer-leave or Reset in between) the offset
\* after the last move is the offset before the pointer-down plus (pn - p0) and
\* lastPointerPosition is pn.  Stated step by step, which is the same thing by
\* induction on n: the pointer-down leaves the offset and sets
\* lastPointerPosition to p0, and every move of the gesture to p adds
\* (p - lastPointerPosition) to the offset and sets lastPointerPosition to p.
C3_DragTracksPointer ==
  [][\A e \in Points :
       /\ mouseDownEvent(T, 0, e) => pan'[T] = pan[T] /\ lastPanPoint'[T] = e
       /\ (drag[T] /\ mouseMoveEvent(T, e)) =>
            /\ pan'[T] = [x |-> pan[T].x + (e.x - lastPanPoint[T].x),
                          y |-> pan[T].y + (e.y - lastPanPoint[T].y)]
            /\ lastPanPoint'[T] = e]_vars

\* C4: Reset, in any reachable state, yields scale = 200 and offset = (0,0),
\* the mount-time values, and leaves isDragging unchanged.
C4_ResetRestoresMount ==
  [][onClickReset(T) =>
       /\ scale'[T] = 200 /\ DefaultScale = 200
       /\ pan'[T] = [x |-> 0, y |-> 0] /\ Origin = [x |-> 0, y |-> 0]
       /\ isPanning'[T] = isPanning[T]]_vars

\* Reset has acted in the middle of a drag, which is still on
C4_Witness ==
  /\ lastEvent[T] = "reset"
  /\ isPanning[T]
  /\ scale[T] = 200
  /\ pan[T] = Origin
  /\ lastPanPoint[T] # Origin

\* C5: after a pointer-up or a pointer-leave isDragging is false, and every
\* pointer-move that follows without an intervening primary pointer-down
\* leaves offset unchanged.
C5_NoPanAfterRelease ==
  [][/\ (onMouseUp(T) \/ onMouseLeave(T)) => ~isPanning'[T]
     /\ (released[T] /\ onMouseMove(T)) => pan'[T] = pan[T]]_vars

\* C6: handlers act atomically on the current state: whatever was handled
\* since the last render, an event leaves the ViewportState that its handler
\* yields when applied to the fully updated state.  Only handleMouseMove reads
\* state through the render; on the current state it pans by
\* (p - lastPointerPosition) if isDragging and does nothing otherwise.
C6_HandlersActOnCurrentState ==
  [][\A e \in Points :
       mouseMoveEvent(T, e) =>
         IF isPanning[T]
         THEN /\ pan'[T] = panned(pan[T], lastPanPoint[T], e.x, e.y)
              /\ lastPanPoint'[T] = e
              /\ scale'[T] = scale[T] /\ isPanning'[T] = isPanning[T]
         ELSE /\ pan'[T] = pan[T] /\ lastPanPoint'[T] = lastPanPoint[T]
              /\ scale'[T] = scale[T] /\ isPanning'[T] = isPanning[T]]_vars

C8_MoveWhileIdleIsNoOp ==
  [][(~isPanning[T] /\ onMouseMove(T)) =>
       /\ scale'[T] = scale[T]
       /\ pan'[T] = pan[T]
       /\ isPanning'[T] = isPanning[T]
       /\ lastPanPoint'[T] = lastPanPoint[T]]_vars

\* C9: a pointer-down with a button other than the primary changes nothing in
\* the state; a primary pointer-down sets isDragging and sets
\* lastPointerPosition to the event position.
C9_OnlyPrimaryButtonStartsDrag ==
  [][/\ \A button \in Buttons \ {0} :
          (lastEvent'[T] = "auxdown" /\ \E e \in Points : mouseDownEvent(T, button, e)) =>
            /\ scale'[T] = scale[T]
            /\ pan'[T] = pan[T]
            /\ isPanning'[T] = isPanning[T]
            /\ lastPanPoint'[T] = lastPanPoint[T]
     /\ \A e \in Points :
          (lastEvent'[T] = "mousedown" /\ mouseDownEvent(T, 0, e)) =>
            isPanning'[T] /\ lastPanPoint'[T] = e]_vars

\* a secondary-button pointer-down was handled and no drag is on
C9_Witness == lastEvent[T] = "auxdown" /\ ~isPanning[T]

\* C10: isDragging is false at mount, turns true only in a primary
\* pointer-down step and turns false only in a pointer-up or pointer-leave
\* step; wheel, pointer-move and Reset never change it.
C10_DragStateMachine ==
  /\ ~isPanning[T]
  /\ [][/\ (~isPanning[T] /\ isPanning'[T]) => \E e \in Points : mouseDownEvent(T, 0, e)
        /\ (isPanning[T] /\ ~isPanning'[T]) => (onMouseUp(T) \/ onMouseLeave(T))
        /\ (onWheel(T) \/ onMouseMove(T) \/ onClickReset(T)) =>
             isPanning'[T] = isPanning[T]]_vars

\* a drag that moved the content has been ended by a pointer-up
C10_Witness == lastEvent[T] = "mouseup" /\ ~isPanning[T] /\ pan[T] # Origin

\* C11 as claimed: every pointer-move processed while dragging sets
\* lastPointerPosition to the event position, and a pointer-up or
\* pointer-leave resets it (to its mount-time value).
C11_LastPointReset ==
  [][/\ \A e \in Points :
          (isPanning[T] /\ mouseMoveEvent(T, e)) => lastPanPoint'[T] = e
     /\ (onMouseUp(T) \/ onMouseLeave(T)) => lastPanPoint'[T] = Origin]_vars

\* C11 amended: every pointer-move processed while dragging sets
\* lastPointerPosition to the event position, and a pointer-up or
\* pointer-leave leaves lastPointerPosition as it is.
C11_LastPointKept ==
  [][/\ \A e \in Points :
          (isPanning[T] /\ mouseMoveEvent(T, e)) => lastPanPoint'[T] = e
     /\ (onMouseUp(T) \/ onMouseLeave(T)) => lastPanPoint'[T] = lastPanPoint[T]]_vars

\* a drag has ended away from the origin and its last position is still held
C11_Witness ==
  /\ lastEvent[T] \in {"mouseup", "mouseleave"}
  /\ ~isPanning[T]
  /\ lastPanPoint[T] # Origin

\* C12: a zoom-out wheel event at scale 50 leaves scale at 50 and a zoom-in
\* wheel event at scale 800 leaves it at 800, however often it is repeated.
C12_IdempotentAtBounds ==
  [][\A deltaY \in DeltaYs :
       wheelEvent(T, deltaY) =>
         /\ (deltaY > 0 /\ scale[T] = 50) => scale'[T] = 50
         /\ (deltaY < 0 /\ scale[T] = 800) => scale'[T] = 800]_vars

\* a wheel event has left the scale at the upper bound
C12_Witness == scale[T] = 800 /\ lastEvent[T] = "wheel"

\* C13: the two viewer instances share no state: an event delivered to one
\* viewer, or a render of it, leaves the other viewer's scale, offset,
\* isDragging and lastPointerPosition (and its attached move handler)
\* unchanged, in every interleaving of events on the two viewers.
EventOn(v) ==
  \/ onWheel(v) \/ onMouseDown(v) \/ onMouseMove(v)
  \/ onMouseUp(v) \/ onMouseLeave(v) \/ onClickReset(v) \/ Render(v)

C13_ViewersIndependent ==
  [][\A v \in Viewers :
       EventOn(v) =>
         \A w \in Viewers \ {v} :
           /\ scale'[w] = scale[w]
           /\ pan'[w] = pan[w]
           /\ isPanning'[w] = isPanning[w]
           /\ lastPanPoint'[w] = lastPanPoint[w]
           /\ captured'[w] = captured[w]]_vars

\* both viewers have been used and are in different states
C13_Witness ==
  /\ scale["vector"] = 220 /\ scale["raster"] = 180
  /\ isPanning["raster"] /\ ~isPanning["vector"]
  /\ lastEvent["vector"] = "wheel" /\ lastEvent["raster"] = "mousedown"

\* C15: the rendered transform is a function of offset and scale only: in
\* every reachable state (whatever isDragging and lastPointerPosition are) a
\* content point c is displayed at offset + (scale/100)*c, that is
\* 100*screen = 100*offset + scale*c, and the content's top-left corner is
\* displayed at offset for every scale.
C15_TransformIsOffsetPlusScaled ==
  /\ \A c \in ContentPoints :
       display100(T, c) = [x |-> 100 * pan[T].x + scale[T] * c.x,
                           y |-> 100 * pan[T].y + scale[T] * c.y]
  /\ display100(T, Origin) = [x |-> 100 * pan[T].x, y |-> 100 * pan[T].y]

\* a panned and zoomed layer, mid-drag: (400,300) is shown at (1040, 781)
C15_Witness ==
  /\ pan[T] = [x |-> 0, y |-> 1] /\ scale[T] = 260
  /\ isPanning[T] /\ lastPanPoint[T] # Origin
  /\ display100(T, [x |-> 400, y |-> 300]) = [x |-> 104000, y |-> 78100]

\* C16: zoom and pan are decoupled: a wheel event never changes offset,
\* isDragging or lastPointerPosition; pointer-down, pointer-move, pointer-up
\* and pointer-leave never change scale; and the offset change of a
\* pointer-move while dragging is the pointer's displacement from the point
\* its handler holds (or nothing, when the handler holds no drag), the same
\* for every value of scale.
C16_ZoomPanDecoupled ==
  [][/\ \A deltaY \in DeltaYs :
          wheelEvent(T, deltaY) =>
            /\ pan'[T] = pan[T]
            /\ isPanning'[T] = isPanning[T]
            /\ lastPanPoint'[T] = lastPanPoint[T]
     /\ scale'[T] # scale[T] =>
          ~(onMouseDown(T) \/ onMouseMove(T) \/ onMouseUp(T) \/ onMouseLeave(T))
     /\ \A e \in Points :
          (isPanning[T] /\ mouseMoveEvent(T, e)) =>
            pan'[T] = IF captured[T].isPanning
                        THEN [x |-> pan[T].x + (e.x - captured[T].lastPanPoint.x),
                              y |-> pan[T].y + (e.y - captured[T].lastPanPoint.y)]
                        ELSE pan[T]]_vars

\* a drag has moved the offset at a zoom level other than the default
C16_Witness ==
  /\ lastEvent[T] = "mousemove" /\ isPanning[T]
  /\ pan[T] # Origin /\ scale[T] = 60

\* C17: a wheel event whose vertical delta is exactly 0 (a purely horizontal
\* scroll) is treated as zoom-in: the new scale is min(800, scale + 20); and
\* no wheel event leaves the scale unchanged except at a clamping bound.
C17_ZeroDeltaZoomsIn ==
  [][\A deltaY \in DeltaYs :
       wheelEvent(T, deltaY) =>
         /\ deltaY = 0 => scale'[T] = Min(800, scale[T] + 20)
         /\ scale'[T] = scale[T] => scale[T] \in {50, 800}]_vars

\* a horizontal scroll has just zoomed in from the mount-time scale
C17_Witness == lastEvent[T] = "hscroll" /\ scale[T] = 220

\* The scale after a zoom-out immediately followed by a zoom-in, and after a
\* zoom-in immediately followed by a zoom-out (the updaters of setScale are
\* applied in the order of the events).
zoomOutIn(s) == zoomed(zoomed(s, wheelDelta(100)), wheelDelta(-100))
zoomInOut(s) == zoomed(zoomed(s, wheelDelta(-100)), wheelDelta(100))

\* C18 as claimed: for every reachable scale s other than the bounds 50 and
\* 800, zoom-out then zoom-in returns s and zoom-in then zoom-out returns s;
\* every reachable scale is 50, 800 or a multiple of 20.
C18_ZoomReversible ==
  /\ scale[T] \notin {50, 800} =>
       zoomOutIn(scale[T]) = scale[T] /\ zoomInOut(scale[T]) = scale[T]
  /\ scale[T] \in {50, 800} \/ scale[T] % 20 = 0

\* C18 amended: zoom-out then zoom-in returns s exactly when s >= 70, zoom-in
\* then zoom-out returns s exactly when s <= 780, and every reachable scale
\* is a multiple of 10 between 50 and 800.
C18_ZoomReversibleAwayFromClamp ==
  /\ zoomOutIn(scale[T]) = scale[T] <=> scale[T] >= 70
  /\ zoomInOut(scale[T]) = scale[T] <=> scale[T] <= 780
  /\ scale[T] \in 50..800 /\ scale[T] % 10 = 0

\* the wheel has brought the scale to 70, which is no multiple of 20
C18_Witness == scale[T] = 70 /\ lastEvent[T] \in {"wheel", "hscroll"}

\* C19: Reset during an active drag does not end or re-anchor the drag: it
\* leaves isDragging and lastPointerPosition unchanged, so the next
\* pointer-move to q sets offset to exactly q - lastPointerPosition, measured
\* from (0,0) and not from the pointer-down position.
C19_ResetMidDragKeepsAnchor ==
  [][/\ (isPanning[T] /\ onClickReset(T)) =>
          /\ isPanning'[T] = isPanning[T]
          /\ lastPanPoint'[T] = lastPanPoint[T]
     /\ \A q \in Points :
          (lastEvent[T] = "reset" /\ isPanning[T] /\ mouseMoveEvent(T, q)) =>
            pan'[T] = [x |-> q.x - lastPanPoint[T].x,
                       y |-> q.y - lastPanPoint[T].y]]_vars

=============================================================================
